---------------------------- MODULE Spec2Model ----------------------------
(***************************************************************************)
(* Gaussian Naive Bayes classifier (class NaiveBayes, naiveBayes.js) and   *)
(* its driver (app.js).                                                    *)
(*                                                                         *)
(* JavaScript numbers are modelled as tagged triples <<kind, a, b>>:       *)
(*   <<"rat", n, d>>        the real n/d (d > 0, lowest terms)             *)
(*   <<"sqrt", n, d>>       the real sqrt(n/d), n/d > 0 not a square       *)
(*   <<"exp", l, LnScale>>  the positive real e^(l/LnScale)                *)
(*   <<"inf", s, 1>>        Infinity (s = 1) and -Infinity (s = -1)        *)
(*   <<"nan", 0, 1>>        NaN                                            *)
(*   <<"undefined", 0, 1>>  the value of a missing array element           *)
(* Arithmetic on the finite kinds is exact (IEEE-754 rounding is not       *)
(* modelled); what is kept of binary64 is its special values and the       *)
(* range of Math.exp: results below the smallest subnormal are 0, results  *)
(* above the largest double are Infinity.  Logarithms are fixed-point      *)
(* with resolution 1/LnScale.                                              *)
(***************************************************************************)
EXTENDS Integers, Sequences, FiniteSets, TLC

VARIABLES data, train, fitted, out

vars == <<data, train, fitted, out>>

-----------------------------------------------------------------------------
(* Numbers *)

\* Resolution of the fixed-point logarithms.
LnScale == 10^4

\* ln 2 in units of 1/LnScale (Math.log).
Ln2 == 6931

\* ln 2 in units of 1/(100 * LnScale), for multiples of ln 2.
Ln2Fine == 693147

\* ln(Math.sqrt(2 * Math.PI)) in units of 1/LnScale.
LnSqrt2Pi == 9189

\* Math.exp(t) is 0 for t below ln(2^-1075) = -745.1332...
ExpUnderflow == -7451332

\* Math.exp(t) is Infinity for t above ln(2^1024) = 709.7827...
ExpOverflow == 7097827

Abs(i) == IF i < 0 THEN -i ELSE i

RECURSIVE GCD(_, _)
GCD(a, b) == IF b = 0 THEN a ELSE GCD(b, a % b)

Rat(n, d) ==
    LET g == GCD(Abs(n), Abs(d))
        s == IF d < 0 THEN -1 ELSE 1
    IN  <<"rat", (s * n) \div g, (s * d) \div g>>

NaN == <<"nan", 0, 1>>

Undefined == <<"undefined", 0, 1>>

Infinity == <<"inf", 1, 1>>

NegInfinity == <<"inf", -1, 1>>

Zero == Rat(0, 1)

Kind(x) == x[1]

IsNaNLike(x) == Kind(x) \in {"nan", "undefined"}

\* A positive real given by its logarithm, clipped to the range of binary64.
ExpOf(l) ==
    IF l < ExpUnderflow THEN Zero
    ELSE IF l > ExpOverflow THEN Infinity
    ELSE <<"exp", l, LnScale>>

RECURSIVE Log2Floor(_)
Log2Floor(m) == IF m < 2 THEN 0 ELSE 1 + Log2Floor(m \div 2)

RECURSIVE Pow2(_)
Pow2(k) == IF k = 0 THEN 1 ELSE 2 * Pow2(k - 1)

\* ln m for an integer m >= 1: m = 2^k * f, ln f = 2 atanh((f-1)/(f+1)).
LnInt(m) ==
    LET k  == Log2Floor(m)
        p  == Pow2(k)
        z  == ((m - p) * LnScale) \div (m + p)
        z2 == (z * z) \div LnScale
        z3 == (z * z2) \div LnScale
        z5 == (z3 * z2) \div LnScale
        z7 == (z5 * z2) \div LnScale
        z9 == (z7 * z2) \div LnScale
    IN  (k * Ln2Fine) \div 100 + 2 * (z + z3 \div 3 + z5 \div 5 + z7 \div 7 + z9 \div 9)

\* ln(n/d) for n, d >= 1.
LnFix(n, d) == LnInt(n) - LnInt(d)

\* floor(LnScale * n / d) without overflowing on n * LnScale.
Scaled(n, d) == (n \div d) * LnScale + ((n % d) * LnScale) \div d

\* e^(-t/LnScale) in units of 1/LnScale, for t >= 0.
ExpNegFix(t) ==
    LET k  == t \div Ln2
        r  == t % Ln2
        r2 == (r * r) \div LnScale
        r3 == (r2 * r) \div LnScale
        r4 == (r3 * r) \div LnScale
        r5 == (r4 * r) \div LnScale
        e  == LnScale - r + r2 \div 2 - r3 \div 6 + r4 \div 24 - r5 \div 120
    IN  IF k > 30 THEN 0 ELSE e \div Pow2(k)

\* ln of a positive number, as an integer in units of 1/LnScale.
LnOf(x) ==
    CASE Kind(x) = "exp"  -> x[2]
      [] Kind(x) = "rat"  -> LnFix(x[2], x[3])
      [] Kind(x) = "sqrt" -> LnFix(x[2], x[3]) \div 2

IsPositive(x) ==
    \/ Kind(x) \in {"exp", "sqrt"}
    \/ Kind(x) = "rat" /\ x[2] > 0
    \/ x = Infinity

IsZero(x) == x = Zero

IsNegative(x) == (Kind(x) = "rat" /\ x[2] < 0) \/ x = NegInfinity

\* x + y
JsAdd(x, y) ==
    CASE IsNaNLike(x) \/ IsNaNLike(y) -> NaN
      [] Kind(x) = "inf" /\ Kind(y) = "inf" -> IF x = y THEN x ELSE NaN
      [] Kind(x) = "inf" /\ Kind(y) # "inf" -> x
      [] Kind(x) # "inf" /\ Kind(y) = "inf" -> y
      [] Kind(x) = "rat" /\ Kind(y) = "rat" ->
            LET g == GCD(x[3], y[3])
            IN  Rat(x[2] * (y[3] \div g) + y[2] * (x[3] \div g),
                    (x[3] \div g) * y[3])
      [] IsZero(x) /\ Kind(y) = "exp" -> y
      [] Kind(x) = "exp" /\ IsZero(y) -> x
      [] Kind(x) = "exp" /\ Kind(y) = "exp" ->
            LET hi == IF x[2] >= y[2] THEN x[2] ELSE y[2]
                lo == IF x[2] >= y[2] THEN y[2] ELSE x[2]
                e  == ExpNegFix(hi - lo)
            IN  ExpOf(hi + LnFix(LnScale + e, LnScale))

\* -x
JsNeg(x) ==
    CASE IsNaNLike(x) -> NaN
      [] Kind(x) = "inf" -> <<"inf", -x[2], 1>>
      [] Kind(x) = "rat" -> Rat(-x[2], x[3])

\* x - y
JsSub(x, y) == IF IsNaNLike(y) THEN NaN ELSE JsAdd(x, JsNeg(y))

\* x * y
JsMul(x, y) ==
    CASE IsNaNLike(x) \/ IsNaNLike(y) -> NaN
      [] Kind(x) = "inf" \/ Kind(y) = "inf" ->
            IF IsZero(x) \/ IsZero(y) THEN NaN
            ELSE IF IsNegative(x) = IsNegative(y) THEN Infinity
            ELSE NegInfinity
      [] Kind(x) = "rat" /\ Kind(y) = "rat" -> Rat(x[2] * y[2], x[3] * y[3])
      [] IsZero(x) \/ IsZero(y) -> Zero
      [] IsPositive(x) /\ IsPositive(y) -> ExpOf(LnOf(x) + LnOf(y))

\* x / y  (a zero divisor is +0 wherever the classifier divides)
JsDiv(x, y) ==
    CASE IsNaNLike(x) \/ IsNaNLike(y) -> NaN
      [] Kind(y) = "inf" ->
            IF Kind(x) = "inf" THEN NaN ELSE Zero
      [] Kind(x) = "inf" ->
            IF IsNegative(x) = IsNegative(y) THEN Infinity ELSE NegInfinity
      [] IsZero(y) ->
            IF IsZero(x) THEN NaN
            ELSE IF IsNegative(x) THEN NegInfinity ELSE Infinity
      [] Kind(x) = "rat" /\ Kind(y) = "rat" -> Rat(x[2] * y[3], x[3] * y[2])
      [] IsZero(x) -> Zero
      [] IsPositive(x) /\ IsPositive(y) -> ExpOf(LnOf(x) - LnOf(y))

\* x ** 2
JsSquare(x) ==
    CASE IsNaNLike(x) -> NaN
      [] Kind(x) = "inf" -> Infinity
      [] Kind(x) = "rat" -> Rat(x[2] * x[2], x[3] * x[3])
      [] Kind(x) = "sqrt" -> Rat(x[2], x[3])

RECURSIVE ISqrt(_, _)
ISqrt(n, r) == IF (r + 1) * (r + 1) > n THEN r ELSE ISqrt(n, r + 1)

\* Math.sqrt(x)
MathSqrt(x) ==
    CASE IsNaNLike(x) -> NaN
      [] x = Infinity -> Infinity
      [] IsNegative(x) -> NaN
      [] Kind(x) = "rat" /\ x[2] >= 0 ->
            LET rn == ISqrt(x[2], 0)
                rd == ISqrt(x[3], 0)
            IN  IF rn * rn = x[2] /\ rd * rd = x[3]
                THEN Rat(rn, rd)
                ELSE <<"sqrt", x[2], x[3]>>

\* Math.exp(x)
MathExp(x) ==
    CASE IsNaNLike(x) -> NaN
      [] x = Infinity -> Infinity
      [] x = NegInfinity -> Zero
      [] Kind(x) = "rat" ->
            IF x[2] < -746 * x[3] THEN Zero
            ELSE IF x[2] > 710 * x[3] THEN Infinity
            ELSE IF x[2] >= 0 THEN ExpOf(Scaled(x[2], x[3]))
            ELSE ExpOf(-Scaled(-x[2], x[3]))

\* Math.log(x)
MathLog(x) ==
    CASE IsNaNLike(x) -> NaN
      [] x = Infinity -> Infinity
      [] IsNegative(x) -> NaN
      [] IsZero(x) -> NegInfinity
      [] IsPositive(x) -> Rat(LnOf(x), LnScale)

\* x > y
JsGt(x, y) ==
    CASE IsNaNLike(x) \/ IsNaNLike(y) -> FALSE
      [] x = y -> FALSE
      [] x = Infinity \/ y = NegInfinity -> TRUE
      [] y = Infinity \/ x = NegInfinity -> FALSE
      [] Kind(x) = "rat" /\ Kind(y) = "rat" -> x[2] * y[3] > y[2] * x[3]
      [] IsPositive(x) /\ ~IsPositive(y) -> TRUE
      [] ~IsPositive(x) /\ IsPositive(y) -> FALSE
      [] IsPositive(x) /\ IsPositive(y) -> LnOf(x) > LnOf(y)

-----------------------------------------------------------------------------
(* The object this.#data *)

Props == {"sortedAttributes", "mean", "stDev"}

\* {} : an object without properties.
EmptyObject ==
    [props |-> {}, sortedAttributes |-> <<>>, mean |-> <<>>, stDev |-> <<>>]

NoKeys == [k \in {} |-> EmptyObject]

\* #data before the first fit (the field is declared, never assigned).
UndefinedData == [defined |-> FALSE, obj |-> NoKeys]

\* #data = {}
EmptyData == [defined |-> TRUE, obj |-> NoKeys]

SetKey(obj, key, v) ==
    [k \in (DOMAIN obj) \cup {key} |-> IF k = key THEN v ELSE obj[k]]

\* The keys of an object in for-in order: integer keys ascending.
RECURSIVE KeysInOrder(_)
KeysInOrder(ks) ==
    IF ks = {} THEN <<>>
    ELSE LET m == CHOOSE k \in ks : \A o \in ks : k <= o
         IN  <<m>> \o KeysInOrder(ks \ {m})

\* array[i] for a 0-based index i: undefined past the end.
At(array, i) == IF i + 1 \in DOMAIN array THEN array[i + 1] ELSE Undefined

-----------------------------------------------------------------------------
(* fit *)

\* The object of the previous fit kept instead of a new one.
KeepDataObject(d) == IF d.defined THEN d ELSE EmptyData

\* this.#data = {}
InitDataObject(d) == EmptyData

\* for (i < labels.length) if (labels[i] > numOfUniqueLabels) { ... }
RECURSIVE AddCategories(_, _, _, _)
AddCategories(labels, i, numOfUniqueLabels, obj) ==
    IF i > Len(labels) THEN [n |-> numOfUniqueLabels, obj |-> obj]
    ELSE IF labels[i] > numOfUniqueLabels
         THEN AddCategories(labels, i + 1, numOfUniqueLabels + 1,
                            SetKey(obj, labels[i], EmptyObject))
         ELSE AddCategories(labels, i + 1, numOfUniqueLabels, obj)

\* for (i = 1; i <= numOfUniqueLabels) this.#data[i].sortedAttributes = [[], ...]
RECURSIVE AddSortedArrays(_, _, _, _)
AddSortedArrays(obj, i, numOfUniqueLabels, numOfAttributes) ==
    IF i > numOfUniqueLabels THEN [obj |-> obj, threw |-> "none"]
    ELSE IF i \notin DOMAIN obj THEN [obj |-> obj, threw |-> "TypeError"]
    ELSE AddSortedArrays(
            [obj EXCEPT ![i] =
                [@ EXCEPT !.props = @ \cup {"sortedAttributes"},
                          !.sortedAttributes =
                              [j \in 1..numOfAttributes |-> <<>>]]],
            i + 1, numOfUniqueLabels, numOfAttributes)

\* for (j < numOfAttributes) this.#data[category].sortedAttributes[j].push(row[j])
PushRow(cat, row, numOfAttributes) ==
    [cat EXCEPT !.sortedAttributes =
        [j \in 1..numOfAttributes |-> Append(@[j], At(row, j - 1))]]

\* for (i < attributeValues.length) { const category = labels[i] ... }
RECURSIVE AddValues(_, _, _, _, _)
AddValues(obj, attributeValues, labels, i, numOfAttributes) ==
    IF i > Len(attributeValues) THEN [obj |-> obj, threw |-> "none"]
    ELSE IF numOfAttributes = 0
         THEN AddValues(obj, attributeValues, labels, i + 1, numOfAttributes)
    ELSE IF \/ i > Len(labels)
            \/ labels[i] \notin DOMAIN obj
            \/ "sortedAttributes" \notin obj[labels[i]].props
            \/ Len(obj[labels[i]].sortedAttributes) < numOfAttributes
         THEN [obj |-> obj, threw |-> "TypeError"]
    ELSE AddValues(
            [obj EXCEPT ![labels[i]] =
                PushRow(@, attributeValues[i], numOfAttributes)],
            attributeValues, labels, i + 1, numOfAttributes)

\* #formatData: the object built, and whether the call threw on the way.
FormatData(d, attributeValues, labels) ==
    LET d0   == InitDataObject(d)
        cats == AddCategories(labels, 1, 0, d0.obj)
    IN  IF Len(attributeValues) = 0
        THEN [data |-> [defined |-> TRUE, obj |-> cats.obj],
              threw |-> "TypeError"]
        ELSE LET numOfAttributes == Len(attributeValues[1])
                 arrs == AddSortedArrays(cats.obj, 1, cats.n, numOfAttributes)
             IN  IF arrs.threw # "none"
                 THEN [data |-> [defined |-> TRUE, obj |-> arrs.obj],
                       threw |-> arrs.threw]
                 ELSE LET vals == AddValues(arrs.obj, attributeValues, labels,
                                            1, numOfAttributes)
                      IN  [data |-> [defined |-> TRUE, obj |-> vals.obj],
                           threw |-> vals.threw]

\* attributeSum += attributeValues[j]
RECURSIVE AttributeSum(_, _, _)
AttributeSum(attributeValues, j, attributeSum) ==
    IF j > Len(attributeValues) THEN attributeSum
    ELSE AttributeSum(attributeValues, j + 1,
                      JsAdd(attributeSum, attributeValues[j]))

\* attributeSum / attributeValues.length
AttributeMean(attributeValues) ==
    JsDiv(AttributeSum(attributeValues, 1, Zero), Rat(Len(attributeValues), 1))

\* #meanEachAttributeCategory, over the categories still to visit.
RECURSIVE MeanEachAttributeCategory(_, _)
MeanEachAttributeCategory(obj, categories) ==
    IF categories = <<>> THEN [obj |-> obj, threw |-> "none"]
    ELSE LET category == Head(categories)
         IN  IF "sortedAttributes" \notin obj[category].props
             THEN [obj |-> [obj EXCEPT ![category] =
                               [@ EXCEPT !.props = @ \cup {"mean"}]],
                   threw |-> "TypeError"]
             ELSE MeanEachAttributeCategory(
                     [obj EXCEPT ![category] =
                         [@ EXCEPT !.props = @ \cup {"mean"},
                                   !.mean =
                                       [i \in 1..Len(obj[category].sortedAttributes) |->
                                           AttributeMean(obj[category].sortedAttributes[i])]]],
                     Tail(categories))

\* squaredDifferences += Math.pow(attributes[i][j] - attributesMeanValue[i], 2)
RECURSIVE SquaredDifferences(_, _, _, _)
SquaredDifferences(attribute, mean, j, squaredDifferences) ==
    IF j > Len(attribute) THEN squaredDifferences
    ELSE SquaredDifferences(attribute, mean, j + 1,
            JsAdd(squaredDifferences, JsSquare(JsSub(attribute[j], mean))))

\* The sample variance: squaredDifferences / (attributes[i].length - 1)
SampleVariance(attribute, mean) ==
    JsDiv(SquaredDifferences(attribute, mean, 1, Zero),
          Rat(Len(attribute) - 1, 1))

\* variance = squaredDifferences / attributes[i].length
Variance(attribute, mean) ==
    JsDiv(SquaredDifferences(attribute, mean, 1, Zero), Rat(Len(attribute), 1))

\* Math.sqrt(variance)
AttributeStandardDeviation(attribute, mean) == MathSqrt(Variance(attribute, mean))

\* #standardDeviation, over the categories still to visit.
RECURSIVE StandardDeviation(_, _)
StandardDeviation(obj, categories) ==
    IF categories = <<>> THEN [obj |-> obj, threw |-> "none"]
    ELSE LET category == Head(categories)
         IN  IF "sortedAttributes" \notin obj[category].props
             THEN [obj |-> [obj EXCEPT ![category] =
                               [@ EXCEPT !.props = @ \cup {"stDev"}]],
                   threw |-> "TypeError"]
             ELSE StandardDeviation(
                     [obj EXCEPT ![category] =
                         [@ EXCEPT !.props = @ \cup {"stDev"},
                                   !.stDev =
                                       [i \in 1..Len(obj[category].sortedAttributes) |->
                                           AttributeStandardDeviation(
                                               obj[category].sortedAttributes[i],
                                               At(obj[category].mean, i - 1))]]],
                     Tail(categories))

\* fit(x, y) on an instance holding d: the #data it leaves and how it ended.
FitResult(d, x, y) ==
    LET f == FormatData(d, x, y)
    IN  IF f.threw # "none" THEN f
        ELSE LET m == MeanEachAttributeCategory(f.data.obj,
                                                KeysInOrder(DOMAIN f.data.obj))
             IN  IF m.threw # "none"
                 THEN [data |-> [defined |-> TRUE, obj |-> m.obj], threw |-> m.threw]
                 ELSE LET s == StandardDeviation(m.obj, KeysInOrder(DOMAIN m.obj))
                      IN  [data |-> [defined |-> TRUE, obj |-> s.obj],
                           threw |-> s.threw]

-----------------------------------------------------------------------------
(* predict *)

\* Math.sqrt(2 * Math.PI)
Sqrt2Pi == ExpOf(LnSqrt2Pi)

\* #pdf: (1 / (sqrt(2 pi) * std)) * exp(-((x - mean) ** 2) / (2 * std ** 2))
Pdf(xInput, meanTraining, stdTraining) ==
    JsMul(JsDiv(Rat(1, 1), JsMul(Sqrt2Pi, stdTraining)),
          MathExp(JsDiv(JsNeg(JsSquare(JsSub(xInput, meanTraining))),
                        JsMul(Rat(2, 1), JsSquare(stdTraining)))))

\* Reading the categories of an undefined #data throws as well.
ReadThrowsUnfitted(d) ==
    \/ ~d.defined
    \/ \E category \in DOMAIN d.obj :
          ~({"mean", "stDev"} \subseteq d.obj[category].props)

\* for (const category in this.#data): true when reading .mean[j] or
\* .stDev[j] of some category throws (the property is undefined).
ReadThrows(d) ==
    \E category \in DOMAIN d.obj : ~({"mean", "stDev"} \subseteq d.obj[category].props)

\* #calculatePDFPredictions: per attribute of the row, one density per category.
CalculatePDFPredictions(d, row) ==
    LET categories == KeysInOrder(DOMAIN d.obj)
    IN  [j \in 1..Len(row) |->
            [c \in 1..Len(categories) |->
                Pdf(row[j],
                    At(d.obj[categories[c]].mean, j - 1),
                    At(d.obj[categories[c]].stDev, j - 1))]]

\* #convertPDFPredictionsToLog
ConvertPDFPredictionsToLog(pdfPredictions) ==
    [j \in 1..Len(pdfPredictions) |->
        [h \in 1..Len(pdfPredictions[j]) |-> MathLog(pdfPredictions[j][h])]]

\* The inner loop of #sumLogPDF over h, for one attribute row of logs.
RECURSIVE SumLogRow(_, _, _, _)
SumLogRow(sumLogPDF, logs, h, numOfAttributes) ==
    IF h > numOfAttributes THEN sumLogPDF
    ELSE SumLogRow(
            IF sumLogPDF[h] = Undefined
            THEN [sumLogPDF EXCEPT ![h] = At(logs, h - 1)]
            ELSE [sumLogPDF EXCEPT ![h] = JsAdd(@, At(logs, h - 1))],
            logs, h + 1, numOfAttributes)

RECURSIVE SumLogLoop(_, _, _, _)
SumLogLoop(sumLogPDF, pdfPredictionsLog, j, numOfAttributes) ==
    IF j > Len(pdfPredictionsLog) THEN sumLogPDF
    ELSE SumLogLoop(SumLogRow(sumLogPDF, pdfPredictionsLog[j], 1, numOfAttributes),
                    pdfPredictionsLog, j + 1, numOfAttributes)

\* #sumLogPDF, for a non-empty pdfPredictionsLog (an empty one throws).
SumLogPDF(pdfPredictionsLog) ==
    LET numOfAttributes == Len(pdfPredictionsLog[1])
    IN  SumLogLoop([h \in 1..numOfAttributes |-> Undefined],
                   pdfPredictionsLog, 1, numOfAttributes)

\* #convertLogToOriginal
ConvertLogToOriginal(sumLogPDF) ==
    [j \in 1..Len(sumLogPDF) |-> MathExp(sumLogPDF[j])]

RECURSIVE PSum(_, _, _)
PSum(expSumLogPDF, j, pSum) ==
    IF j > Len(expSumLogPDF) THEN pSum
    ELSE PSum(expSumLogPDF, j + 1, JsAdd(pSum, expSumLogPDF[j]))

\* #normalizeProbabilities
NormalizeProbabilities(expSumLogPDF) ==
    LET pSum == PSum(expSumLogPDF, 1, Zero)
    IN  [j \in 1..Len(expSumLogPDF) |-> JsDiv(expSumLogPDF[j], pSum)]

\* The comparison with >= : the last of several equal values wins.
ExceedsOrEquals(candidate, best) ==
    JsGt(candidate, best) \/ (candidate = best /\ ~IsNaNLike(candidate))

\* if (normalizedProbabilities[j] > normalizedProbabilities[maxValueIndex])
Exceeds(candidate, best) == JsGt(candidate, best)

\* #findHighestProbabilityIndex (j and maxValueIndex are 0-based)
RECURSIVE FindHighestLoop(_, _, _)
FindHighestLoop(normalizedProbabilities, j, maxValueIndex) ==
    IF j >= Len(normalizedProbabilities) THEN maxValueIndex
    ELSE FindHighestLoop(
            normalizedProbabilities, j + 1,
            IF Exceeds(At(normalizedProbabilities, j),
                       At(normalizedProbabilities, maxValueIndex))
            THEN j ELSE maxValueIndex)

FindHighestProbabilityIndex(normalizedProbabilities) ==
    FindHighestLoop(normalizedProbabilities, 0, 0)

\* The normalised per-class values predict computes for one row.
NormalizedFor(d, row) ==
    NormalizeProbabilities(ConvertLogToOriginal(SumLogPDF(
        ConvertPDFPredictionsToLog(CalculatePDFPredictions(d, row)))))

\* One iteration of predict's loop throws when the row has no attribute
\* (pdfPredictionsLog[0] is undefined) or a category has no statistics.
RowThrows(d, row) == Len(row) = 0 \/ ReadThrows(d)

\* predict(x): the predictions pushed so far and how the call ended.
RECURSIVE PredictLoop(_, _, _, _)
PredictLoop(d, x, i, categoryPredictions) ==
    IF i > Len(x) THEN [value |-> categoryPredictions, threw |-> "none"]
    ELSE IF RowThrows(d, x[i])
         THEN [value |-> categoryPredictions, threw |-> "TypeError"]
    ELSE PredictLoop(d, x, i + 1,
            Append(categoryPredictions,
                   FindHighestProbabilityIndex(NormalizedFor(d, x[i]))))

PredictResult(d, x) == PredictLoop(d, x, 1, <<>>)

\* The in-place logarithm of #convertPDFPredictionsToLog applied to the
\* means the model keeps.
PredictEffectLogInPlace(d, x) ==
    [d EXCEPT !.obj =
        [c \in DOMAIN d.obj |->
            [d.obj[c] EXCEPT !.mean =
                [j \in 1..Len(d.obj[c].mean) |-> MathLog(d.obj[c].mean[j])]]]]

\* What predict writes to this.#data: nothing (it fills local arrays only).
PredictEffect(d, x) == d

-----------------------------------------------------------------------------
(* accuracyScore *)

\* The comparison without the offset: y[i] === predictions[i]
IsCorrectNoOffset(label, prediction) == label = Rat(prediction, 1)

\* y[i] === (predictions[i] + 1)
IsCorrect(label, prediction) == label = Rat(prediction + 1, 1)

\* #countCorrectlyClassifiedPredictions
RECURSIVE CountCorrectlyClassifiedPredictions(_, _, _, _, _)
CountCorrectlyClassifiedPredictions(predictions, y, totalPredictionsCount, i, correctlyClassified) ==
    IF i >= totalPredictionsCount THEN correctlyClassified
    ELSE CountCorrectlyClassifiedPredictions(
            predictions, y, totalPredictionsCount, i + 1,
            IF IsCorrect(IF i + 1 \in DOMAIN y THEN Rat(y[i + 1], 1) ELSE Undefined,
                         predictions[i + 1])
            THEN correctlyClassified + 1 ELSE correctlyClassified)

\* accuracyScore(predictions, y)
AccuracyScoreResult(predictions, y) ==
    LET totalPredictionsCount == Len(predictions)
        correctlyClassified ==
            CountCorrectlyClassifiedPredictions(predictions, y,
                                                totalPredictionsCount, 0, 0)
    IN  JsDiv(Rat(correctlyClassified, 1), Rat(totalPredictionsCount, 1))

-----------------------------------------------------------------------------
(* The callers' inputs *)

\* Longest feature matrix and label vector enumerated for fit.
MaxRows == 2

\* Longest prediction list and label vector enumerated for accuracyScore.
MaxScored == 3

\* Attribute values of the enumerated training rows.
Values == {Rat(1, 1), Rat(3, 1)}

\* Class codes of the enumerated label vectors.
Labels == {1, 2}

SeqsUpTo(S, n) == UNION {[1..k -> S] : k \in 0..n}

\* A one-attribute matrix from a list of numerators over one denominator.
Column(ns, d) == [i \in 1..Len(ns) |-> <<Rat(ns[i], d)>>]

\* A matrix of integer attribute values.
IntMatrix(rows) ==
    [i \in 1..Len(rows) |-> [j \in 1..Len(rows[i]) |-> Rat(rows[i][j], 1)]]

DataSet(x, y) == [x |-> x, y |-> y]

\* Class 1: 1.0, 1.2; class 2: 10.0, 10.2.
EndToEnd == DataSet(Column(<<10, 12, 100, 102>>, 10), <<1, 1, 2, 2>>)

\* One class with attribute values 2,4,4,4,5,5,7,9.
MeanStdExample ==
    DataSet(Column(<<2, 4, 4, 4, 5, 5, 7, 9>>, 1), <<1, 1, 1, 1, 1, 1, 1, 1>>)

\* Two classes with the same training values.
Twins == DataSet(Column(<<1, 3, 1, 3>>, 1), <<1, 1, 2, 2>>)

\* Two attributes, two classes.
TwoAttributes ==
    DataSet(IntMatrix(<<<<1, 10>>, <<3, 14>>, <<5, 2>>, <<9, 4>>>>), <<1, 1, 2, 2>>)

\* Three classes, labels interleaved.
ThreeClasses ==
    DataSet(Column(<<1, 5, 9, 3, 7, 11>>, 1), <<1, 2, 3, 1, 2, 3>>)

\* Rows of unequal length.
RaggedShort == DataSet(IntMatrix(<<<<1, 2>>, <<3>>>>), <<1, 1>>)

RaggedLong == DataSet(IntMatrix(<<<<1>>, <<3, 4>>, <<5>>>>), <<1, 1, 1>>)

\* Two classes of unequal size, rows interleaved.
Uneven == DataSet(Column(<<1, 5, 3, 9, 3>>, 1), <<1, 2, 1, 2, 1>>)

\* Labels that are not a dense range 1..K.
SparseLabels == DataSet(Column(<<1, 3>>, 1), <<1, 3>>)

NamedSets ==
    {EndToEnd, MeanStdExample, Twins, TwoAttributes, ThreeClasses,
     Uneven, RaggedShort, RaggedLong, SparseLabels}

\* The data a caller may hold (app.js: the rows and labels read from the file).
TrainSets ==
    {DataSet(x, y) : x \in SeqsUpTo({<<v>> : v \in Values}, MaxRows),
                     y \in SeqsUpTo(Labels, MaxRows)}
    \cup NamedSets

\* Data a caller may fit before or after its own.
OtherSets == {EndToEnd, TwoAttributes}

\* Matrices a caller may ask predictions for, besides its training rows.
TestSets ==
    {<< >>,
     << << >> >>,
     Column(<<11, 101, 200>>, 10),
     Column(<<2, 3>>, 1),
     IntMatrix(<<<<2, 12>>, <<7, 3>>, <<100, 3>>>>)}

-----------------------------------------------------------------------------
(* The instance and its callers *)

\* History: the arguments and the end of the last fit call.
NoFit == [called |-> FALSE, x |-> << >>, y |-> << >>, threw |-> "none"]

\* The last call: its arguments and what came back to the caller.  before is
\* the number of categories #data held when fit was called; again tells that
\* the call before a predict was a predict too.
NoCall ==
    [op |-> "none", x |-> << >>, y |-> << >>, predictions |-> << >>,
     threw |-> "none", value |-> << >>, score |-> Undefined,
     before |-> 0, again |-> FALSE]

\* const naiveBayes = new NaiveBayes(); the caller holds its data set.
Init ==
    /\ data = UndefinedData
    /\ train \in TrainSets
    /\ fitted = NoFit
    /\ out = NoCall

\* naiveBayes.fit(x, y)
FitCall(x, y) ==
    LET r == FitResult(data, x, y)
    IN  /\ data' = r.data
        /\ fitted' = [called |-> TRUE, x |-> x, y |-> y, threw |-> r.threw]
        /\ out' = [NoCall EXCEPT !.op = "fit", !.x = x, !.y = y,
                                 !.threw = r.threw,
                                 !.before = Cardinality(DOMAIN data.obj)]
        /\ UNCHANGED train

Fit == \E ds \in {train} \cup OtherSets : FitCall(ds.x, ds.y)

\* naiveBayes.predict(x)
PredictCall(x) ==
    LET r == PredictResult(data, x)
    IN  /\ data' = PredictEffect(data, x)
        /\ out' = [NoCall EXCEPT !.op = "predict", !.x = x,
                                 !.threw = r.threw, !.value = r.value,
                                 !.again = (out.op = "predict")]
        /\ UNCHANGED <<train, fitted>>

Predict == \E x \in {train.x} \cup TestSets : PredictCall(x)

\* naiveBayes.accuracyScore(predictions, y)
AccuracyScoreCall(predictions, y) ==
    /\ out' = [NoCall EXCEPT !.op = "accuracyScore", !.y = y,
                             !.predictions = predictions,
                             !.score = AccuracyScoreResult(predictions, y)]
    /\ UNCHANGED <<data, train, fitted>>

\* app.js: accuracyScore(preds, labelsArray) on what predict returned.
AccuracyScore ==
    /\ out.op = "predict"
    /\ out.threw = "none"
    /\ AccuracyScoreCall(out.value, train.y)

Next == Fit \/ Predict \/ AccuracyScore

Spec == Init /\ [][Next]_vars

\* accuracyScore on its own: any predictions against any labels.
ScoreInit ==
    /\ data = UndefinedData
    /\ train = DataSet(<< >>, << >>)
    /\ fitted = NoFit
    /\ out = NoCall

Score ==
    \E predictions \in SeqsUpTo({0, 1}, MaxScored), y \in SeqsUpTo(Labels, MaxScored) :
        AccuracyScoreCall(predictions, y)

ScoreNext == Score

ScoreSpec == ScoreInit /\ [][ScoreNext]_vars

-----------------------------------------------------------------------------
(* Properties *)

\* len(X) = len(y) > 0 and every row of X has the same number of attributes.
Rectangular(x) == \A i \in 1..Len(x) : Len(x[i]) = Len(x[1])

\* y is a dense range 1..K in first-appearance order.
DenseLabels(y) ==
    \A i \in 1..Len(y) :
        /\ y[i] >= 1
        /\ \A l \in 1..(y[i] - 1) : \E h \in 1..(i - 1) : y[h] = l

WellFormed(x, y) ==
    /\ Len(x) = Len(y)
    /\ Len(x) > 0
    /\ Rectangular(x)
    /\ DenseLabels(y)

NumClasses(y) == Cardinality({y[i] : i \in 1..Len(y)})

\* The rows of class c, in input order.
RECURSIVE RowsOfClass(_, _, _)
RowsOfClass(y, c, i) ==
    IF i > Len(y) THEN << >>
    ELSE (IF y[i] = c THEN <<i>> ELSE << >>) \o RowsOfClass(y, c, i + 1)

RECURSIVE Total(_, _)
Total(values, S) ==
    IF S = {} THEN Zero
    ELSE LET i == CHOOSE i \in S : TRUE
         IN  JsAdd(values[i], Total(values, S \ {i}))

\* m is the arithmetic mean of the values.
IsMeanOf(m, values) ==
    /\ Kind(m) = "rat"
    /\ JsMul(m, Rat(Len(values), 1)) = Total(values, DOMAIN values)

\* s is the population standard deviation of the values around m.
IsPopulationStdDevOf(s, m, values) ==
    /\ Kind(s) \in {"rat", "sqrt"}
    /\ s[2] >= 0
    /\ JsMul(JsSquare(s), Rat(Len(values), 1)) =
           Total([i \in DOMAIN values |-> JsSquare(JsSub(values[i], m))],
                 DOMAIN values)

\* The model holds the statistics of a completed fit for A attributes.
IsStatistics(d, A) ==
    /\ d.defined
    /\ \A c \in DOMAIN d.obj :
        /\ d.obj[c].props = Props
        /\ Len(d.obj[c].sortedAttributes) = A
        /\ Len(d.obj[c].mean) = A
        /\ Len(d.obj[c].stDev) = A

\* Some class has a constant value for some attribute (stdDev = 0).
Degenerate(d) ==
    \E c \in DOMAIN d.obj : \E j \in DOMAIN d.obj[c].stDev : d.obj[c].stDev[j] = Zero

\* The last fit call met fit's preconditions and returned.
FittedWell ==
    /\ fitted.called
    /\ fitted.threw = "none"
    /\ WellFormed(fitted.x, fitted.y)

\* The instance as a fresh one would be after the last fit call alone.
FreshlyFitted == FitResult(UndefinedData, fitted.x, fitted.y).data

\* i is the lowest index at which v attains its maximum: no element
\* compares greater than v[i], and every earlier element is exceeded.
IsFirstMaximum(v, i) ==
    /\ i \in 0..(Len(v) - 1)
    /\ \A h \in 0..(Len(v) - 1) : ~JsGt(At(v, h), At(v, i))
    /\ \A h \in 0..(i - 1) : \E g \in 0..(Len(v) - 1) : JsGt(At(v, g), At(v, h))

\* K: the number of classes the model holds.
FittedClasses == Cardinality(DOMAIN data.obj)

HasAttributes(x) == \A i \in 1..Len(x) : Len(x[i]) >= 1

\* C1: on a fitted model of K classes, predict(X) (X a matrix whose rows
\* hold at least one attribute) returns len(X) integers; the element of a
\* row is the lowest index at which the row's K normalised values attain
\* their maximum (first occurrence on ties), so it lies in 0..K-1.
C1_PredictFirstMaximum ==
    (/\ out.op = "predict"
     /\ fitted.called
     /\ fitted.threw = "none"
     /\ FittedClasses >= 1
     /\ HasAttributes(out.x))
    => /\ out.threw = "none"
       /\ Len(out.value) = Len(out.x)
       /\ \A i \in 1..Len(out.x) :
            /\ Len(NormalizedFor(data, out.x[i])) = FittedClasses
            /\ IsFirstMaximum(NormalizedFor(data, out.x[i]), out.value[i])
            /\ out.value[i] \in 0..(FittedClasses - 1)

\* A predict over two fitted classes that picked the second class for one
\* row and the first class for another.
C1_Witness ==
    /\ out.op = "predict"
    /\ FittedWell
    /\ FittedClasses = 2
    /\ out.threw = "none"
    /\ HasAttributes(out.x)
    /\ \E i \in 1..Len(out.x) : out.value[i] = 1
    /\ \E i \in 1..Len(out.x) : out.value[i] = 0

\* C2: for predictions and y of equal non-zero length, accuracyScore is the
\* number of indices i with y[i] = predictions[i] + 1 divided by the length;
\* [0,1,0] against [1,2,1] gives 1 and [0,0,0] against [1,2,1] gives 2/3.
C2_AccuracyScore ==
    /\ (/\ out.op = "accuracyScore"
        /\ Len(out.predictions) = Len(out.y)
        /\ Len(out.y) # 0)
       => out.score =
              Rat(Cardinality({i \in 1..Len(out.y) :
                                  out.y[i] = out.predictions[i] + 1}),
                  Len(out.y))
    /\ (/\ out.op = "accuracyScore"
        /\ out.predictions = <<0, 1, 0>>
        /\ out.y = <<1, 2, 1>>)
       => out.score = Rat(1, 1)
    /\ (/\ out.op = "accuracyScore"
        /\ out.predictions = <<0, 0, 0>>
        /\ out.y = <<1, 2, 1>>)
       => out.score = Rat(2, 3)

\* accuracyScore([0,0,0], [1,2,1]) returned 2/3.
C2_Witness ==
    /\ out.op = "accuracyScore"
    /\ out.predictions = <<0, 0, 0>>
    /\ out.y = <<1, 2, 1>>
    /\ out.score = Rat(2, 3)

\* The values of attribute j (1-based) in the rows of class c.
ClassValues(x, y, c, j) ==
    LET rows == RowsOfClass(y, c, 1)
    IN  [h \in 1..Len(rows) |-> x[rows[h]][j]]

\* C3: after fit(X, y) with a rectangular X of A attributes and labels dense
\* 1..K in first-appearance order, the model holds exactly the classes 1..K,
\* and for each class c and attribute j, sortedAttributes[c][j] holds exactly
\* the values X[i][j] of the rows with y[i] = c, mean[c][j] is their
\* arithmetic mean and stdDev[c][j] their population standard deviation;
\* the values 2,4,4,4,5,5,7,9 give mean 5 and stdDev 2.
C3_FitStatistics ==
    /\ (fitted.called /\ WellFormed(fitted.x, fitted.y))
       => /\ fitted.threw = "none"
          /\ DOMAIN data.obj = 1..NumClasses(fitted.y)
          /\ IsStatistics(data, Len(fitted.x[1]))
          /\ \A c \in DOMAIN data.obj : \A j \in 1..Len(fitted.x[1]) :
                LET values == ClassValues(fitted.x, fitted.y, c, j)
                IN  /\ data.obj[c].sortedAttributes[j] = values
                    /\ IsMeanOf(data.obj[c].mean[j], values)
                    /\ IsPopulationStdDevOf(data.obj[c].stDev[j],
                                            data.obj[c].mean[j], values)
    /\ (fitted.called /\ fitted.x = MeanStdExample.x /\ fitted.y = MeanStdExample.y)
       => /\ data.obj[1].mean = <<Rat(5, 1)>>
          /\ data.obj[1].stDev = <<Rat(2, 1)>>

\* A fit of two classes of three and two rows: class 1 holds 1, 3, 3.
C3_Witness ==
    /\ fitted.called
    /\ fitted.x = Uneven.x
    /\ fitted.y = Uneven.y
    /\ data.obj[1].sortedAttributes = <<<<Rat(1, 1), Rat(3, 1), Rat(3, 1)>>>>
    /\ data.obj[1].mean = <<Rat(7, 3)>>
    /\ data.obj[1].stDev = <<<<"sqrt", 8, 9>>>>
    /\ data.obj[2].stDev = <<Rat(2, 1)>>

\* ln of the product over the attributes of the Gaussian densities of class
\* category at the row, as a pair: the fixed-point part -ln(sqrt(2 pi) sigma)
\* summed, and the exact sum of (x - mu)^2 / (2 sigma^2).
RECURSIVE LogDensity(_, _, _, _)
LogDensity(d, category, row, j) ==
    IF j > Len(row) THEN <<0, Zero>>
    ELSE LET rest  == LogDensity(d, category, row, j + 1)
             sigma == d.obj[category].stDev[j]
             mu    == d.obj[category].mean[j]
         IN  <<rest[1] - LnSqrt2Pi - LnOf(sigma),
               JsAdd(rest[2], JsDiv(JsSquare(JsSub(row[j], mu)),
                                    JsMul(Rat(2, 1), JsSquare(sigma))))>>

\* The density product of class a at the row is greater than that of class b.
DenserThan(d, a, b, row) ==
    LET la == LogDensity(d, a, row, 1)
        lb == LogDensity(d, b, row, 1)
    IN  JsGt(Rat(la[1] - lb[1], LnScale), JsSub(la[2], lb[2]))

\* C4: after fit, predict returns for each row the 0-based index of the class
\* whose product over the attributes of Gaussian densities is greatest; after
\* fit on [1.0], [1.2] (label 1) and [10.0], [10.2] (label 2), [1.1] gives 0
\* and [10.1] gives 1.
C4_PredictMostLikelyClass ==
    (/\ out.op = "predict"
     /\ FittedWell
     /\ ~Degenerate(data)
     /\ Len(fitted.x[1]) >= 1
     /\ \A i \in 1..Len(out.x) : Len(out.x[i]) = Len(fitted.x[1]))
    => /\ out.threw = "none"
       /\ Len(out.value) = Len(out.x)
       /\ \A i \in 1..Len(out.x) :
            \A c \in DOMAIN data.obj :
                ~DenserThan(data, c, out.value[i] + 1, out.x[i])

\* C5: after any sequence of fit calls that ends with a fit(X, y) that
\* returned, #data is what a fresh instance holds after fit(X, y) alone:
\* no class, value or statistic of an earlier fit survives.
C5_FitRebuilds ==
    (fitted.called /\ fitted.threw = "none") => data = FreshlyFitted

\* A fit that returned on an instance that held more classes before.
C5_Witness ==
    /\ out.op = "fit"
    /\ out.threw = "none"
    /\ WellFormed(out.x, out.y)
    /\ out.before > FittedClasses
    /\ FittedClasses >= 1

\* C6: predict leaves #data as the last fit left it (or undefined), and its
\* result is the one a predict right after that fit gives for the input.
C6_PredictReadsOnly ==
    out.op = "predict"
    => LET d == IF fitted.called THEN FreshlyFitted ELSE UndefinedData
           r == PredictResult(d, out.x)
       IN  /\ data = d
           /\ out.threw = r.threw
           /\ out.value = r.value

\* A predict that followed another predict on a fitted model.
C6_Witness ==
    /\ out.op = "predict"
    /\ out.again
    /\ FittedWell
    /\ out.threw = "none"
    /\ Len(out.value) >= 2

\* C7: with a class whose attribute is constant over its training rows
\* (stdDev = 0), predict raises DegenerateDistributionError.
C7_DegenerateRaises ==
    (/\ out.op = "predict"
     /\ FittedWell
     /\ Degenerate(data)
     /\ Len(out.x) >= 1
     /\ \A i \in 1..Len(out.x) : Len(out.x[i]) = Len(fitted.x[1]))
    => out.threw = "DegenerateDistributionError"

\* C8: fit with rows of unequal length or len(X) # len(y), and accuracyScore
\* with len(predictions) # len(y), end with an error, not with a result.
C8_ShapeMismatchSurfaced ==
    /\ (/\ out.op = "fit"
        /\ (~Rectangular(out.x) \/ Len(out.x) # Len(out.y)))
       => out.threw # "none"
    /\ (/\ out.op = "accuracyScore"
        /\ Len(out.predictions) # Len(out.y))
       => out.threw # "none"

\* The statistics of one completed fit: every class with sortedAttributes,
\* mean and stdDev of one common length A.
IsCompleteStatistics(d) ==
    /\ DOMAIN d.obj # {}
    /\ \E c \in DOMAIN d.obj : IsStatistics(d, Len(d.obj[c].sortedAttributes))

\* C9: once fit is back with the caller, returned or thrown, the instance
\* holds the complete statistics of one fit call, never a cleared or
\* partially built set.
C9_FitAtomic == out.op = "fit" => IsCompleteStatistics(data)

\* C10: on an instance never fitted, predict(X) on rows that each hold at
\* least one attribute returns index 0 for every row without an error.
C10_UnfittedPredictsZero ==
    (/\ out.op = "predict"
     /\ ~fitted.called
     /\ HasAttributes(out.x))
    => /\ out.threw = "none"
       /\ out.value = [i \in 1..Len(out.x) |-> 0]

\* A predict of several rows on an instance never fitted.
C10_Witness ==
    /\ out.op = "predict"
    /\ ~fitted.called
    /\ HasAttributes(out.x)
    /\ Len(out.x) >= 2
    /\ out.threw = "none"

=============================================================================
